---- MODULE Spec2Model ----
(***************************************************************************)
(* Model of src/jupyter-py/distance_method.py: the Metrics analyzer (trade *)
(* segmentation over the recorded status series) and the DistanceStrategy  *)
(* pairs-trading state machine.                                            *)
(*                                                                         *)
(* Numbers.  Prices, quantities and portfolio values are integers.  A      *)
(* running mean is an exact fraction <<num, den>> in lowest terms.         *)
(* Python's None is the empty tuple <<>> and a present value x is <<x>>.   *)
(*                                                                         *)
(* Money amounts of the strategy (initial_cash, initial_long_pv,           *)
(* initial_short_pv, long_pv, short_pv) are kept doubled, so that the      *)
(* factors 0.5 and 1.5 of the source stay integral.  Broker cash is kept   *)
(* in thousandths.  The threshold sizes are kept in quarters (0.5 is 2).   *)
(*                                                                         *)
(* The window statistics are exact.  Over the window d_1..d_L of spreads   *)
(* (L = lookback), S is their sum and W = L * sum(d_i^2) - S^2, so that    *)
(* mean = S / L and the sample standard deviation of pandas (ddof = 1) is  *)
(* std = sqrt(W / (L * (L - 1))).  A threshold mean + (k/4) * std is the   *)
(* record [m |-> S, w |-> W, k |-> k]; comparisons against it are decided  *)
(* exactly by comparing squares.                                           *)
(***************************************************************************)
EXTENDS Integers, Sequences, FiniteSets, TLC

\* ------------------------------------------------------------------ bounds
\* longest status sequence handed to the segmenter
MaxLen == 6

\* how many times compute_trade_statistics is run on one recorded sequence
MaxRuns == 2

\* params lookback and max_lookback (84 in the source), scaled down
Lookback == 2

MaxLookback == Lookback

\* params lookback of Metrics: 10 in the source, below the strategy's 84
MetricsLookback == Lookback - 1

\* settings of the analyzer's lookback: below, equal to and above the
\* strategy's
MetricsLookbacks == {MetricsLookback, Lookback, Lookback + 1}

\* number of bars the host delivers
MaxBars == 4

\* the host delivers no further bar while more orders than this would be open
MaxOutstanding == 3

\* params loss_limit, in thousandths
LossLimitMilli == -15

\* closing prices of the two instruments, and broker.getvalue()
Prices0 == {10, 12, 13}

Prices1 == {8, 10}

Values == {3, 15, 2400}

\* the same and a negative portfolio value
WideValues == Values \cup {-15}

\* <<enter_threshold_size, exit_threshold_size>>, in quarters: the defaults of
\* the source, 2 and 0.5
DefaultSizes == <<8, 2>>

\* the two params as passed for a short window, 0.5 and 0.25: the latest
\* spread of a window of L closes lies at most (L - 1) / sqrt(L) standard
\* deviations from the window's mean, so a window of fewer than 6 closes never
\* crosses the default enter size of 2
ShortWindowSizes == <<2, 1>>

\* the settings of the two params the strategy is run with
EntrySizes == {DefaultSizes, ShortWindowSizes}

\* further settings of the two params: a negative exit size, and an exit size
\* above the enter size
ThresholdSizes == EntrySizes \cup {<<2, -1>>, <<2, 3>>}

\* ----------------------------------------------------------------- helpers
None == <<>>

\* an attribute that __init__ has not created: reading it is an AttributeError
Absent == <<"AttributeError", "no such attribute">>

Some(x) == <<x>>

Val(o) == o[1]

Abs(x) == IF x < 0 THEN -x ELSE x

Min(a, b) == IF a < b THEN a ELSE b

Max(a, b) == IF a > b THEN a ELSE b

RECURSIVE GCD(_, _)
GCD(a, b) == IF b = 0 THEN Abs(a) ELSE GCD(b, a % b)

\* the fraction num/den (den > 0) in lowest terms
Frac(num, den) ==
    LET g == GCD(Abs(num), den)
    IN  IF g = 0 THEN <<0, 1>> ELSE <<num \div g, den \div g>>

\* all sequences over S of length at most n
SeqsUpTo(S, n) == UNION {[1..k -> S] : k \in 0..n}

\* the status sequences the segmenter is run on: every sequence over {0,1,2}
\* up to MaxLen, and the two sequences of the documented scenarios
StatusSeqs ==
    SeqsUpTo({0, 1, 2}, MaxLen)
        \cup {<<0, 0, 1, 1, 1, 0, 2, 2, 0>>, <<1, 1, 2, 2, 2>>}

VARIABLES
    \* Metrics
    m_lookback,            \* Metrics.p.lookback
    m_status,              \* Metrics.status: the recorded per-bar status
    pv,                    \* Metrics.pv: the recorded per-bar portfolio value
    n_trades,
    n_resolved_trades,
    n_unresolved_trades,
    avg_holding_period,    \* a fraction <<num, den>>
    len_unresolved_trade,
    \* compute_trade_statistics in progress
    m_pc,                  \* "idle" | "scan"
    m_i,                   \* index of the next element of the for loop
    _n,
    _mean,                 \* a fraction <<num, den>>
    _counter,
    _curstate,
    m_runs,                \* completed runs of compute_trade_statistics
    \* DistanceStrategy
    enter_threshold_size,  \* in quarters
    exit_threshold_size,   \* in quarters
    orderid,
    spread,
    spread_mean,           \* <<S>>: the mean is S / Lookback
    spread_std,            \* <<W>>: the std is sqrt(W / (Lookback * (Lookback - 1)))
    upper_limit,
    lower_limit,
    up_medium,
    low_medium,
    status,
    qty0,
    qty1,
    initial_price_data0,   \* None or a reference to a line of a data feed
    initial_price_data1,
    initial_cash,          \* doubled
    initial_long_pv,       \* doubled
    initial_short_pv,      \* doubled
    \* the backtesting host
    data0,                 \* the last Lookback closes of instrument 0
    data1,                 \* the last Lookback closes of instrument 1
    nbars,                 \* bars delivered since the first call of next
    lead0,                 \* len(data0) - nbars: bars of instrument 0 before
    lead1,                 \* len(data1) - nbars: bars of instrument 1 before
    calls,                 \* buy / sell / close calls made by the last bar
    orders,                \* orders submitted and not yet finally notified
    pos0,                  \* the broker's position in instrument 0
    pos1,                  \* the broker's position in instrument 1
    cash,                  \* what add_cash has added to broker cash, in thousandths
    error                  \* "none", or the exception that ended the run

metricsVars ==
    <<m_lookback, m_status, pv, n_trades, n_resolved_trades, n_unresolved_trades,
      avg_holding_period, len_unresolved_trade, m_pc, m_i, _n, _mean,
      _counter, _curstate, m_runs>>

statsVars ==
    <<n_trades, n_resolved_trades, n_unresolved_trades, avg_holding_period,
      len_unresolved_trade>>

localVars == <<_n, _mean, _counter, _curstate>>

thrVars ==
    <<spread_mean, spread_std, upper_limit, lower_limit, up_medium, low_medium>>

tradeVars ==
    <<status, qty0, qty1, initial_price_data0, initial_price_data1,
      initial_cash, initial_long_pv, initial_short_pv>>

paramVars == <<enter_threshold_size, exit_threshold_size>>

strategyVars == <<paramVars, orderid, spread, thrVars, tradeVars>>

hostVars ==
    <<data0, data1, nbars, lead0, lead1, calls, orders, pos0, pos1, cash,
      error>>

vars == <<metricsVars, strategyVars, hostVars>>

\* ------------------------------------------------------- Metrics.__init__
MetricsInit ==
    /\ pv = <<>>
    /\ n_trades = 0
    /\ n_resolved_trades = 0
    /\ n_unresolved_trades = 0
    /\ avg_holding_period = <<-1, 1>>
    /\ len_unresolved_trade = -1
    /\ m_pc = "idle"
    /\ m_i = 0
    /\ _n = 0
    /\ _mean = <<0, 1>>
    /\ _counter = 0
    /\ _curstate = 0
    /\ m_runs = 0

\* ------------------------------------- Metrics.compute_trade_statistics
\* faulty variant: the locals carry over what the previous run left in the fields
InitLocalsStale ==
    [n |-> n_resolved_trades, mean |-> <<0, 1>>, counter |-> 0, curstate |-> 0]

\* the locals as the function sets them on entry
InitLocals == [n |-> 0, mean |-> <<0, 1>>, counter |-> 0, curstate |-> 0]

\* faulty variant: a direct flip between 1 and 2 is not seen as a change of position
ChangedPositionNoFlip(st, cur) == st = 0

\* the test that closes the current run
ChangedPosition(st, cur) == st = 0 \/ st # cur

\* faulty variant: the old mean is not weighted by the number of runs it averages
RunningMeanUnweighted(n, mean, counter) ==
    Frac(mean[1] + counter * mean[2], mean[2] * (n + 1))

\* _mean = (_n * _mean + _counter) / float(_n + 1)
RunningMean(n, mean, counter) ==
    Frac(n * mean[1] + counter * mean[2], mean[2] * (n + 1))

\* entry of the function: the four locals are initialised
ComputeStart ==
    /\ m_pc = "idle"
    /\ m_runs < MaxRuns
    /\ m_pc' = "scan"
    /\ m_i' = 1
    /\ _n' = InitLocals.n
    /\ _mean' = InitLocals.mean
    /\ _counter' = InitLocals.counter
    /\ _curstate' = InitLocals.curstate
    /\ UNCHANGED <<m_lookback, m_status, pv, statsVars, m_runs, strategyVars,
                   hostVars>>

\* faulty variant: a change of position restarts the counter at 0, so the bar
\* of a direct flip is not counted in the run it opens
ScanStepRestartsAtZero ==
    /\ m_pc = "scan"
    /\ m_i <= Len(m_status)
    /\ LET st == m_status[m_i]
       IN  IF _curstate = 0
           THEN IF st = 0
                THEN UNCHANGED localVars
                ELSE /\ _curstate' = st
                     /\ _counter' = 1
                     /\ UNCHANGED <<_n, _mean>>
           ELSE IF ChangedPosition(st, _curstate)
                THEN /\ _mean' = RunningMean(_n, _mean, _counter)
                     /\ _n' = _n + 1
                     /\ _counter' = 0
                     /\ _curstate' = st
                ELSE IF st = _curstate
                     THEN /\ _counter' = _counter + 1
                          /\ UNCHANGED <<_n, _mean, _curstate>>
                     ELSE UNCHANGED localVars
    /\ m_i' = m_i + 1
    /\ UNCHANGED <<m_lookback, m_status, pv, statsVars, m_pc, m_runs,
                   strategyVars, hostVars>>

\* one iteration of the for loop over self.status
ScanStep ==
    /\ m_pc = "scan"
    /\ m_i <= Len(m_status)
    /\ LET st == m_status[m_i]
       IN  IF _curstate = 0
           THEN IF st = 0
                THEN UNCHANGED localVars
                ELSE /\ _curstate' = st
                     /\ _counter' = 1
                     /\ UNCHANGED <<_n, _mean>>
           ELSE IF ChangedPosition(st, _curstate)
                THEN /\ _mean' = RunningMean(_n, _mean, _counter)
                     /\ _n' = _n + 1
                     /\ _counter' = 1
                     /\ _curstate' = st
                ELSE IF st = _curstate
                     THEN /\ _counter' = _counter + 1
                          /\ UNCHANGED <<_n, _mean, _curstate>>
                     ELSE UNCHANGED localVars
    /\ m_i' = m_i + 1
    /\ UNCHANGED <<m_lookback, m_status, pv, statsVars, m_pc, m_runs,
                   strategyVars, hostVars>>

\* after the loop: the five result fields are assigned, the locals die
ComputeFinish ==
    /\ m_pc = "scan"
    /\ m_i > Len(m_status)
    /\ LET unresolved == IF _curstate = 0 THEN 0 ELSE 1
       IN  /\ n_resolved_trades' = _n
           /\ n_unresolved_trades' = unresolved
           /\ n_trades' = _n + unresolved
           /\ avg_holding_period' = IF _n > 0 THEN _mean ELSE <<-1, 1>>
           /\ len_unresolved_trade' = IF unresolved = 1 THEN _counter ELSE -1
    /\ m_pc' = "idle"
    /\ m_i' = 0
    /\ _n' = 0
    /\ _mean' = <<0, 1>>
    /\ _counter' = 0
    /\ _curstate' = 0
    /\ m_runs' = m_runs + 1
    /\ UNCHANGED <<m_lookback, m_status, pv, strategyVars, hostVars>>

\* ------------------------------------------- DistanceStrategy.__init__
StrategyInit ==
    /\ orderid = None
    /\ spread = None
    /\ spread_mean = Absent
    /\ spread_std = Absent
    /\ upper_limit = None
    /\ lower_limit = None
    /\ up_medium = None
    /\ low_medium = None
    /\ status = 0
    /\ qty0 = 0
    /\ qty1 = 0
    /\ initial_price_data0 = None
    /\ initial_price_data1 = None
    /\ initial_cash = None
    /\ initial_long_pv = None
    /\ initial_short_pv = None

\* both feeds start on the same bar
Aligned == lead0 = 0 /\ lead1 = 0

\* the host before the first bar
HostInit ==
    /\ data0 = <<>>
    /\ data1 = <<>>
    /\ nbars = 0
    /\ calls = <<>>
    /\ orders = <<>>
    /\ pos0 = 0
    /\ pos1 = 0
    /\ cash = 0
    /\ error = "none"

\* --------------------------------------------------- window statistics
\* the host appends a close to a feed; only the last Lookback are read
Push(d, price) ==
    IF Len(d) < Lookback THEN Append(d, price) ELSE Append(Tail(d), price)

RECURSIVE SumSeq(_)
SumSeq(d) == IF d = <<>> THEN 0 ELSE Head(d) + SumSeq(Tail(d))

\* Y - X over the lookback window
Diffs(d0, d1) == [i \in 1..Len(d0) |-> d0[i] - d1[i]]

\* (Y - X).mean() is WindowSum / Lookback
WindowSum(d0, d1) == SumSeq(Diffs(d0, d1))

\* (Y - X).std() is sqrt(WindowDev / (Lookback * (Lookback - 1)))
WindowDev(d0, d1) ==
    LET d == Diffs(d0, d1)
        sq == [i \in 1..Len(d) |-> d[i] * d[i]]
    IN  Lookback * SumSeq(sq) - SumSeq(d) * SumSeq(d)

\* spread_mean + (k / 4) * spread_std
Threshold(S, W, k) == [m |-> S, w |-> W, k |-> k]

\* spread - mean of t, times 4 * Lookback * (Lookback - 1)
Lhs(sp, t) == 4 * (Lookback - 1) * (Lookback * sp - t.m)

\* the square of (k / 4) * std of t, times (4 * Lookback * (Lookback - 1))^2
RhsSq(t) == t.k * t.k * Lookback * (Lookback - 1) * t.w

\* sp > t
GreaterThan(sp, t) ==
    IF t.k >= 0
    THEN Lhs(sp, t) > 0 /\ Lhs(sp, t) * Lhs(sp, t) > RhsSq(t)
    ELSE Lhs(sp, t) > 0 \/ Lhs(sp, t) * Lhs(sp, t) < RhsSq(t)

\* sp < t
LessThan(sp, t) ==
    IF t.k >= 0
    THEN Lhs(sp, t) < 0 \/ Lhs(sp, t) * Lhs(sp, t) < RhsSq(t)
    ELSE Lhs(sp, t) < 0 /\ Lhs(sp, t) * Lhs(sp, t) > RhsSq(t)

\* ------------------------------------------------------ strategy helpers
\* faulty variant: the quotient is rounded to the nearest integer
IntRound(a, b) == (2 * a + b) \div (2 * b)

\* int(a / b) for b > 0: truncation towards zero
IntTrunc(a, b) == IF a >= 0 THEN a \div b ELSE -((-a) \div b)

\* the value now of a stored reference to a line of a data feed
LineValue(ref, p0, p1) == IF ref = "data0.close" THEN p0 ELSE p1

\* price * qty, doubled
long_portfolio_value(price, qty) == 2 * price * qty

\* qty * (1.5 * price_initial - price_final), doubled
short_portfolio_value(price_initial, price_final, qty) ==
    qty * (3 * price_initial - 2 * price_final)

\* (net_gain_long + net_gain_short) / initial_cash < loss_limit, initial_cash # 0
ReturnBelowLimit(net_gain, cash0) ==
    IF cash0 > 0
    THEN 1000 * net_gain < LossLimitMilli * cash0
    ELSE 1000 * net_gain > LossLimitMilli * cash0

Order(op, d, size) == [op |-> op, data |-> d, size |-> size]

\* ------------------------------------------------- short_spread and others
\* faulty variant: the orders carry the new quantities only, so a flip does not
\* unwind the legs held before
short_spread_no_unwind(p0, p1, v) ==
    LET x == IntTrunc(2 * v, 3 * p0)
        y == IntTrunc(2 * v, 3 * p1)
    IN  /\ calls' = <<Order("sell", 0, x), Order("buy", 1, y)>>
        /\ qty0' = x
        /\ qty1' = y
        /\ status' = 1
        /\ initial_cash' = Some(2 * y * p1 + x * p0)
        /\ initial_long_pv' = Some(long_portfolio_value(y, p1))
        /\ initial_short_pv' = Some(p0 * x)
        /\ initial_price_data0' = Some("data0.close")
        /\ initial_price_data1' = Some("data1.close")

short_spread(p0, p1, v) ==
    LET x == IntTrunc(2 * v, 3 * p0)
        y == IntTrunc(2 * v, 3 * p1)
    IN  /\ calls' = <<Order("sell", 0, x + qty0), Order("buy", 1, y + qty1)>>
        /\ qty0' = x
        /\ qty1' = y
        /\ status' = 1
        /\ initial_cash' = Some(2 * y * p1 + x * p0)
        /\ initial_long_pv' = Some(long_portfolio_value(y, p1))
        /\ initial_short_pv' = Some(p0 * x)
        /\ initial_price_data0' = Some("data0.close")
        /\ initial_price_data1' = Some("data1.close")

long_spread(p0, p1, v) ==
    LET x == IntTrunc(2 * v, 3 * p0)
        y == IntTrunc(2 * v, 3 * p1)
    IN  /\ calls' = <<Order("buy", 0, x + qty0), Order("sell", 1, y + qty1)>>
        /\ qty0' = x
        /\ qty1' = y
        /\ status' = 2
        /\ initial_cash' = Some(2 * x * p0 + y * p1)
        /\ initial_long_pv' = Some(long_portfolio_value(x, p0))
        /\ initial_short_pv' = Some(p1 * y)
        /\ initial_price_data0' = Some("data0.close")
        /\ initial_price_data1' = Some("data1.close")

\* faulty variant: the exit leaves the quantity of instrument 1 in place
exit_spread_keeps_qty1 ==
    /\ calls' = <<Order("close", 0, 0), Order("close", 1, 0)>>
    /\ qty0' = 0
    /\ qty1' = qty1
    /\ status' = 0
    /\ initial_cash' = None
    /\ initial_long_pv' = None
    /\ initial_short_pv' = None
    /\ initial_price_data0' = None
    /\ initial_price_data1' = None

exit_spread ==
    /\ calls' = <<Order("close", 0, 0), Order("close", 1, 0)>>
    /\ qty0' = 0
    /\ qty1' = 0
    /\ status' = 0
    /\ initial_cash' = None
    /\ initial_long_pv' = None
    /\ initial_short_pv' = None
    /\ initial_price_data0' = None
    /\ initial_price_data1' = None

\* the bar makes no call and leaves the trade state alone
NoTrade == calls' = <<>> /\ UNCHANGED tradeVars

\* the stop-loss test of a non-flat bar
StopLoss(long_pv, short_pv) ==
    LET net_gain_long == long_pv - Val(initial_long_pv)
        net_gain_short == short_pv - Val(initial_short_pv)
    IN  IF Val(initial_cash) = 0
        THEN /\ error' = "ZeroDivisionError"
             /\ NoTrade
        ELSE /\ error' = error
             /\ IF \/ ReturnBelowLimit(net_gain_long + net_gain_short,
                                       Val(initial_cash))
                   \/ short_pv <= 0
                THEN exit_spread
                ELSE NoTrade

\* ------------------------------------------------ DistanceStrategy.next
\* faulty variant: a sign slip puts low_medium above the mean
RecomputeSignSlip(d0, d1) ==
    LET S == WindowSum(d0, d1)
        W == WindowDev(d0, d1)
    IN  /\ spread_mean' = Some(S)
        /\ spread_std' = Some(W)
        /\ upper_limit' = Some(Threshold(S, W, enter_threshold_size))
        /\ lower_limit' = Some(Threshold(S, W, -enter_threshold_size))
        /\ up_medium' = Some(Threshold(S, W, exit_threshold_size))
        /\ low_medium' = Some(Threshold(S, W, exit_threshold_size))

\* the thresholds of a flat bar, from the lookback window
Recompute(d0, d1) ==
    LET S == WindowSum(d0, d1)
        W == WindowDev(d0, d1)
    IN  /\ spread_mean' = Some(S)
        /\ spread_std' = Some(W)
        /\ upper_limit' = Some(Threshold(S, W, enter_threshold_size))
        /\ lower_limit' = Some(Threshold(S, W, -enter_threshold_size))
        /\ up_medium' = Some(Threshold(S, W, exit_threshold_size))
        /\ low_medium' = Some(Threshold(S, W, -exit_threshold_size))

\* faulty variant: the flat bar decides against the thresholds of the bar before
NextFlatStale(sp, upper, lower, p0, p1, v) ==
    /\ error' = error
    /\ IF upper_limit = None
       THEN NoTrade
       ELSE IF GreaterThan(sp, Val(upper_limit))
            THEN short_spread(p0, p1, v)
            ELSE IF LessThan(sp, Val(lower_limit))
                 THEN long_spread(p0, p1, v)
                 ELSE NoTrade

\* "NO position" status; upper and lower are this bar's thresholds
NextFlat(sp, upper, lower, p0, p1, v) ==
    /\ error' = error
    /\ IF GreaterThan(sp, upper)
       THEN short_spread(p0, p1, v)
       ELSE IF LessThan(sp, lower)
            THEN long_spread(p0, p1, v)
            ELSE NoTrade

\* faulty variant: the short side forgets the direct flip and exits instead
NextShortNoFlip(sp, p0, p1, v) ==
    IF LessThan(sp, Val(up_medium))
    THEN error' = error /\ exit_spread
    ELSE StopLoss(long_portfolio_value(p1, qty1),
                  short_portfolio_value(
                      LineValue(Val(initial_price_data0), p0, p1), p0, qty0))

\* "SHORT the spread" status
NextShort(sp, p0, p1, v) ==
    IF LessThan(sp, Val(lower_limit))
    THEN error' = error /\ long_spread(p0, p1, v)
    ELSE IF LessThan(sp, Val(up_medium))
         THEN error' = error /\ exit_spread
         ELSE StopLoss(long_portfolio_value(p1, qty1),
                       short_portfolio_value(
                           LineValue(Val(initial_price_data0), p0, p1), p0, qty0))

\* "LONG the spread" status
NextLong(sp, p0, p1, v) ==
    IF GreaterThan(sp, Val(upper_limit))
    THEN error' = error /\ short_spread(p0, p1, v)
    ELSE IF GreaterThan(sp, Val(low_medium))
         THEN error' = error /\ exit_spread
         ELSE StopLoss(long_portfolio_value(p0, qty0),
                       short_portfolio_value(
                           LineValue(Val(initial_price_data1), p0, p1), p0, qty1))

\* faulty variant: only the history of instrument 0 is looked at
ProcessedChecksOneFeed(n0, n1) == n0 >= MaxLookback /\ orderid = None

\* a bar is processed when the history of both feeds (n0 and n1 bars)
\* suffices and no order is pending
Processed(n0, n1) == Min(n0, n1) >= MaxLookback /\ orderid = None

\* faulty variant: the thresholds are recomputed on every processed bar
strategy_next_recomputes(p0, p1, v, d0, d1, n0, n1) ==
    IF ~Processed(n0, n1)
    THEN NoTrade /\ UNCHANGED <<spread, thrVars, error>>
    ELSE LET sp == p0 - p1
         IN  /\ spread' = Some(sp)
             /\ Recompute(d0, d1)
             /\ IF status = 0
                THEN NextFlat(sp, Val(upper_limit'), Val(lower_limit'),
                              p0, p1, v)
                ELSE IF status = 1
                     THEN NextShort(sp, p0, p1, v)
                     ELSE NextLong(sp, p0, p1, v)

\* next, on the bar whose closes are p0 and p1, with broker value v; d0 and d1
\* are the feeds' windows including this bar and n0 and n1 their lengths
strategy_next(p0, p1, v, d0, d1, n0, n1) ==
    IF ~Processed(n0, n1)
    THEN NoTrade /\ UNCHANGED <<spread, thrVars, error>>
    ELSE LET sp == p0 - p1
         IN  /\ spread' = Some(sp)
             /\ IF status = 0
                THEN /\ Recompute(d0, d1)
                     /\ NextFlat(sp, Val(upper_limit'), Val(lower_limit'),
                                 p0, p1, v)
                ELSE /\ UNCHANGED thrVars
                     /\ IF status = 1
                        THEN NextShort(sp, p0, p1, v)
                        ELSE NextLong(sp, p0, p1, v)

\* ------------------------------------------------------- notify_order
\* faulty variant: the quantity is used with its sign
CommissionSigned(price, qty) ==
    Min(Max(1000, 5 * qty), 10 * price * qty)

\* min(max(1, 0.005 * |qty|), 0.01 * price * |qty|), in thousandths
Commission(price, qty) ==
    Min(Max(1000, 5 * Abs(qty)), 10 * price * Abs(qty))

incur_commission(price, qty) == cash' = cash - Commission(price, qty)

\* faulty variant: an order that ends without a fill is charged the minimum
\* commission all the same
notify_order_charges_unfilled(o_status, isbuy, price, size) ==
    IF o_status \in {"Submitted", "Accepted"}
    THEN UNCHANGED <<orderid, cash>>
    ELSE /\ IF o_status = "Completed"
            THEN incur_commission(price, size)
            ELSE cash' = cash - 1000
         /\ orderid' = None

notify_order(o_status, isbuy, price, size) ==
    IF o_status \in {"Submitted", "Accepted"}
    THEN UNCHANGED <<orderid, cash>>
    ELSE /\ IF o_status = "Completed"
            THEN IF isbuy
                 THEN incur_commission(price, size)
                 ELSE incur_commission(price, size)
            ELSE UNCHANGED cash
         /\ orderid' = None

\* ------------------------------------------------------------ the host
\* the broker order that a call of the strategy creates, if any: buy and sell
\* of size 0 create none and submit |size| otherwise, close sells or buys the
\* position held at the call
ToOrder(c) ==
    IF c.op = "close"
    THEN LET held == IF c.data = 0 THEN pos0 ELSE pos1
         IN  IF held > 0 THEN <<Order("sell", c.data, held)>>
             ELSE IF held < 0 THEN <<Order("buy", c.data, -held)>>
             ELSE <<>>
    ELSE IF c.size # 0 THEN <<Order(c.op, c.data, Abs(c.size))>> ELSE <<>>

Submit(cs) == IF cs = <<>> THEN <<>> ELSE ToOrder(cs[1]) \o ToOrder(cs[2])

\* the host delivers one bar: both feeds advance and the strategy's next is
\* called
HostBar(p0, p1, v) ==
    /\ error = "none"
    /\ nbars < MaxBars
    /\ Len(orders) + 2 <= MaxOutstanding
    /\ data0' = Push(data0, p0)
    /\ data1' = Push(data1, p1)
    /\ nbars' = nbars + 1
    /\ strategy_next(p0, p1, v, Push(data0, p0), Push(data1, p1),
                     nbars + 1 + lead0, nbars + 1 + lead1)
    /\ orders' = orders \o Submit(calls')
    /\ UNCHANGED <<paramVars, orderid, lead0, lead1, pos0, pos1, cash>>

\* a bar of a run to which no analyzer is attached
Bar(p0, p1, v) == HostBar(p0, p1, v) /\ UNCHANGED metricsVars

\* faulty variant: the log starts as soon as one of the feeds is long enough
metrics_next_either_feed(n0, n1, v, st) ==
    IF Max(n0, n1) >= m_lookback
    THEN pv' = Append(pv, v) /\ m_status' = Append(m_status, st)
    ELSE UNCHANGED <<pv, m_status>>

\* Metrics.next, called after the strategy's next on a bar on which the feeds
\* have n0 and n1 bars, with broker value v; st is the strategy's status
\* after the bar
metrics_next(n0, n1, v, st) ==
    IF Min(n0, n1) >= m_lookback
    THEN pv' = Append(pv, v) /\ m_status' = Append(m_status, st)
    ELSE UNCHANGED <<pv, m_status>>

\* a bar of a run with the Metrics analyzer attached, every order of the bar
\* before being notified first; an exception in the strategy ends the run
\* before the analyzer is called
BarLogged(p0, p1, v) ==
    /\ orders = <<>>
    /\ HostBar(p0, p1, v)
    /\ IF error' = "none"
       THEN metrics_next(nbars + 1 + lead0, nbars + 1 + lead1, v, status')
       ELSE UNCHANGED <<pv, m_status>>
    /\ UNCHANGED <<m_lookback, statsVars, m_pc, m_i, localVars, m_runs>>

\* the host notifies that the oldest open order was submitted or accepted
NotifyPending(st) ==
    /\ error = "none"
    /\ orders # <<>>
    /\ notify_order(st, Head(orders).op = "buy", 0, 0)
    /\ UNCHANGED <<paramVars, spread, thrVars, tradeVars, data0, data1, nbars,
                   lead0, lead1, calls, orders, pos0, pos1, error,
                   metricsVars>>

\* the host fills the oldest open order at the last close of its instrument
\* and notifies it
NotifyCompleted ==
    /\ error = "none"
    /\ orders # <<>>
    /\ LET o == Head(orders)
           size == IF o.op = "buy" THEN o.size ELSE -o.size
           p == IF o.data = 0 THEN data0[Len(data0)] ELSE data1[Len(data1)]
       IN  /\ notify_order("Completed", o.op = "buy", p, size)
           /\ IF o.data = 0
              THEN pos0' = pos0 + size /\ pos1' = pos1
              ELSE pos1' = pos1 + size /\ pos0' = pos0
    /\ orders' = Tail(orders)
    /\ UNCHANGED <<paramVars, spread, thrVars, tradeVars, data0, data1, nbars,
                   lead0, lead1, calls, error, metricsVars>>

\* the host notifies that the oldest open order expired, was cancelled or
\* was rejected on margin
NotifyRejected(st) ==
    /\ error = "none"
    /\ orders # <<>>
    /\ notify_order(st, Head(orders).op = "buy", 0, 0)
    /\ orders' = Tail(orders)
    /\ UNCHANGED <<paramVars, spread, thrVars, tradeVars, data0, data1, nbars,
                   lead0, lead1, calls, pos0, pos1, error, metricsVars>>

\* ------------------------------------------------------- specifications
\* the params the two objects are constructed with: the threshold sizes of
\* the strategy and the lookback of the analyzer
Params(sizes, lookbacks) ==
    /\ \E ts \in sizes :
          enter_threshold_size = ts[1] /\ exit_threshold_size = ts[2]
    /\ m_lookback \in lookbacks

\* the segmenter alone, on every bounded status sequence
InitSeg ==
    /\ m_status \in StatusSeqs
    /\ MetricsInit
    /\ Params({DefaultSizes}, {MetricsLookback})
    /\ StrategyInit
    /\ HostInit
    /\ Aligned

NextSeg ==
    \/ ComputeStart
    \/ ScanStep
    \/ ComputeFinish

SpecSeg == InitSeg /\ [][NextSeg]_vars

\* the strategy under the host: bars and order notifications in any order
Init ==
    /\ Params(EntrySizes, {MetricsLookback})
    /\ StrategyInit
    /\ HostInit
    /\ Aligned
    /\ m_status = <<>>
    /\ MetricsInit

Next ==
    \/ \E p0 \in Prices0, p1 \in Prices1, v \in Values : Bar(p0, p1, v)
    \/ \E st \in {"Submitted", "Accepted"} : NotifyPending(st)
    \/ NotifyCompleted
    \/ \E st \in {"Expired", "Canceled", "Margin"} : NotifyRejected(st)

Spec == Init /\ [][Next]_vars

\* the strategy with the Metrics analyzer attached, for every portfolio
\* value; every order is filled before the next bar
NextMetrics ==
    \/ \E p0 \in Prices0, p1 \in Prices1, v \in WideValues : BarLogged(p0, p1, v)
    \/ \E st \in {"Submitted", "Accepted"} : NotifyPending(st)
    \/ NotifyCompleted

SpecMetrics == Init /\ [][NextMetrics]_vars

\* how many bars one feed may have before the other starts: <<lead0, lead1>>
Leads == {<<0, 0>>, <<1, 0>>, <<0, 1>>}

\* the strategy with the analyzer attached, on feeds that need not start on
\* the same bar, for every setting of the analyzer's lookback; every order is
\* filled before the next bar
InitStaggered ==
    /\ Params(EntrySizes, MetricsLookbacks)
    /\ StrategyInit
    /\ HostInit
    /\ \E l \in Leads : lead0 = l[1] /\ lead1 = l[2]
    /\ m_status = <<>>
    /\ MetricsInit

NextStaggered ==
    \/ \E p0 \in Prices0, p1 \in Prices1, v \in Values : BarLogged(p0, p1, v)
    \/ \E st \in {"Submitted", "Accepted"} : NotifyPending(st)
    \/ NotifyCompleted

SpecStaggered == InitStaggered /\ [][NextStaggered]_vars

\* the same as Spec, for every setting of the threshold sizes
InitParams ==
    /\ Params(ThresholdSizes, {MetricsLookback})
    /\ StrategyInit
    /\ HostInit
    /\ Aligned
    /\ m_status = <<>>
    /\ MetricsInit

SpecParams == InitParams /\ [][Next]_vars

\* ------------------------------------------ what the segmenter should yield
\* a run of compute_trade_statistics has completed and none is in progress
SegDone == m_pc = "idle" /\ m_runs >= 1

\* length of the maximal run of equal statuses that ends at index i of s
RECURSIVE RunLenAt(_, _)
RunLenAt(s, i) ==
    IF i > 1 /\ s[i - 1] = s[i] THEN 1 + RunLenAt(s, i - 1) ELSE 1

\* last indices of the maximal non-zero runs that are followed by another status
ClosedEnds(s) == {i \in 1..(Len(s) - 1) : s[i] # 0 /\ s[i + 1] # s[i]}

RECURSIVE SumRunLens(_, _)
SumRunLens(s, ends) ==
    IF ends = {} THEN 0
    ELSE LET i == CHOOSE j \in ends : TRUE
         IN  RunLenAt(s, i) + SumRunLens(s, ends \ {i})

OpenAtEnd(s) == Len(s) > 0 /\ s[Len(s)] # 0

\* C7: after compute_trade_statistics, n_resolved_trades is the number of
\* maximal non-zero runs followed by a different status, n_unresolved_trades
\* is 1 exactly when the final status is non-zero, and n_trades is their sum.
C7_TradeCounts ==
    SegDone =>
        /\ n_resolved_trades = Cardinality(ClosedEnds(m_status))
        /\ n_unresolved_trades = (IF OpenAtEnd(m_status) THEN 1 ELSE 0)
        /\ n_trades = n_resolved_trades + n_unresolved_trades
        /\ (m_status = <<1, 1, 2, 2, 2>> =>
                n_resolved_trades = 1 /\ n_unresolved_trades = 1)

C7_Witness ==
    /\ SegDone
    /\ m_status = <<0, 0, 1, 1, 1, 0, 2, 2, 0>>
    /\ n_resolved_trades = 2
    /\ n_unresolved_trades = 0
    /\ n_trades = 2

\* C8: after compute_trade_statistics, avg_holding_period is the arithmetic
\* mean of the lengths of the closed runs (-1 when there is none) and
\* len_unresolved_trade is the length of the open final run (-1 when the
\* final status is 0 or the sequence is empty).
C8_HoldingPeriods ==
    SegDone =>
        LET ends == ClosedEnds(m_status)
            k == Cardinality(ends)
        IN  /\ IF k = 0
               THEN avg_holding_period = <<-1, 1>>
               ELSE /\ avg_holding_period[2] > 0
                    /\ avg_holding_period[1] * k
                           = SumRunLens(m_status, ends) * avg_holding_period[2]
            /\ len_unresolved_trade =
                   (IF OpenAtEnd(m_status)
                    THEN RunLenAt(m_status, Len(m_status)) ELSE -1)
            /\ (m_status = <<0, 0, 1, 1, 1, 0, 2, 2, 0>> =>
                    avg_holding_period = <<5, 2>> /\ len_unresolved_trade = -1)

C8_Witness ==
    /\ SegDone
    /\ m_status = <<1, 1, 2, 2, 2>>
    /\ avg_holding_period = <<2, 1>>
    /\ len_unresolved_trade = 3

\* C10: a further run of compute_trade_statistics on the same recorded
\* sequence leaves all five statistics exactly as the previous run set them.
C10_Idempotent ==
    [][(m_runs >= 1 /\ m_pc = "scan" /\ m_pc' = "idle")
          => (statsVars' = statsVars /\ m_status' = m_status)]_vars

C10_Witness ==
    /\ m_runs = 2
    /\ m_pc = "idle"
    /\ n_resolved_trades >= 2
    /\ n_unresolved_trades = 1


\* --------------------------------------------- what the strategy should do
\* the host delivers a bar
BarStep == nbars' = nbars + 1

\* the bar is one that next processes: enough history and no order pending
ProcessedBar ==
    /\ BarStep
    /\ nbars' + lead0 >= MaxLookback
    /\ nbars' + lead1 >= MaxLookback
    /\ orderid = None

\* the closes of the latest bar
Close0 == data0[Len(data0)]

Close1 == data1[Len(data1)]

ShortCalls(cs) ==
    /\ Len(cs) = 2
    /\ cs[1].op = "sell" /\ cs[1].data = 0
    /\ cs[2].op = "buy" /\ cs[2].data = 1

LongCalls(cs) ==
    /\ Len(cs) = 2
    /\ cs[1].op = "buy" /\ cs[1].data = 0
    /\ cs[2].op = "sell" /\ cs[2].data = 1

CloseCalls(cs) ==
    /\ Len(cs) = 2
    /\ cs[1].op = "close" /\ cs[1].data = 0
    /\ cs[2].op = "close" /\ cs[2].data = 1

TradeStateNull ==
    /\ initial_cash = None
    /\ initial_long_pv = None
    /\ initial_short_pv = None
    /\ initial_price_data0 = None
    /\ initial_price_data1 = None

TradeStateSet ==
    /\ initial_cash # None
    /\ initial_long_pv # None
    /\ initial_short_pv # None
    /\ initial_price_data0 # None
    /\ initial_price_data1 # None

\* C1: on a processed bar that starts Flat, against the thresholds recomputed
\* from that bar's window, the strategy enters ShortSpread iff spread >
\* upper_limit and LongSpread iff spread < lower_limit, and otherwise makes
\* no call and stays Flat with both quantities 0.
C1_FlatDecision ==
    [][(ProcessedBar /\ status = 0) =>
          LET sp == Val(spread')
              up == Val(upper_limit')
              lo == Val(lower_limit')
          IN  /\ sp = Close0' - Close1'
              /\ up = Threshold(WindowSum(data0', data1'),
                                WindowDev(data0', data1'),
                                enter_threshold_size)
              /\ lo = Threshold(WindowSum(data0', data1'),
                                WindowDev(data0', data1'),
                                -enter_threshold_size)
              /\ (status' = 1 <=> GreaterThan(sp, up))
              /\ (status' = 2 <=> LessThan(sp, lo))
              /\ (status' = 1 => ShortCalls(calls'))
              /\ (status' = 2 => LongCalls(calls'))
              /\ (~GreaterThan(sp, up) /\ ~LessThan(sp, lo) =>
                     /\ calls' = <<>>
                     /\ status' = 0
                     /\ qty0' = 0
                     /\ qty1' = 0)]_vars

\* an entry into ShortSpread from Flat
C1_Witness ==
    /\ status = 1
    /\ ShortCalls(calls)
    /\ qty0 > 0
    /\ calls[1].size = qty0
    /\ calls[2].size = qty1

\* C2: on a processed bar that starts non-flat the next status follows the
\* transition table, against the frozen thresholds: ShortSpread flips to
\* LongSpread when spread < lower_limit, exits when lower_limit <= spread <
\* up_medium, and otherwise stays or is stopped out; LongSpread likewise.
C2_TransitionTable ==
    [][(ProcessedBar /\ status # 0) =>
          LET sp == Val(spread')
          IN  /\ sp = Close0' - Close1'
              /\ status = 1 =>
                    /\ LessThan(sp, Val(lower_limit)) =>
                          status' = 2 /\ LongCalls(calls')
                    /\ (~LessThan(sp, Val(lower_limit))
                            /\ LessThan(sp, Val(up_medium))) =>
                          status' = 0 /\ CloseCalls(calls')
                    /\ ~LessThan(sp, Val(up_medium)) =>
                          \/ status' = 1 /\ calls' = <<>>
                          \/ status' = 0 /\ CloseCalls(calls')
              /\ status = 2 =>
                    /\ GreaterThan(sp, Val(upper_limit)) =>
                          status' = 1 /\ ShortCalls(calls')
                    /\ (~GreaterThan(sp, Val(upper_limit))
                            /\ GreaterThan(sp, Val(low_medium))) =>
                          status' = 0 /\ CloseCalls(calls')
                    /\ ~GreaterThan(sp, Val(low_medium)) =>
                          \/ status' = 2 /\ calls' = <<>>
                          \/ status' = 0 /\ CloseCalls(calls')]_vars

\* a direct flip from ShortSpread to LongSpread: the order of instrument 0
\* carries the new quantity and the one held before
C2_Witness ==
    /\ status = 2
    /\ LongCalls(calls)
    /\ qty0 > 0
    /\ calls[1].size > qty0

\* the trade state agrees with the status and with the calls of the last bar
C3_StateInv ==
    /\ status = 0 <=> (TradeStateNull /\ qty0 = 0 /\ qty1 = 0)
    /\ status # 0 => TradeStateSet
    /\ (ShortCalls(calls) \/ LongCalls(calls)) => status # 0 /\ TradeStateSet
    /\ CloseCalls(calls) =>
          status = 0 /\ qty0 = 0 /\ qty1 = 0 /\ TradeStateNull

\* C3: status is Flat exactly when the five trade-state fields are null and
\* both quantities are 0; an entry leaves a non-flat status with all five
\* fields set; an exit makes the two close calls and leaves status Flat,
\* both quantities 0 and all five fields null.
C3_TradeState ==
    /\ []C3_StateInv
    /\ [][(status # 0 /\ status' = 0) => CloseCalls(calls')]_vars
    /\ [][(status' # 0 /\ status' # status) =>
             (ShortCalls(calls') \/ LongCalls(calls'))]_vars

\* an exit has just been made from a position that held both legs
C3_Witness ==
    /\ CloseCalls(calls)
    /\ status = 0
    /\ TradeStateNull
    /\ pos0 # 0
    /\ pos1 # 0


\* the bar runs the stop-loss check: ShortSpread with spread >= up_medium, or
\* LongSpread with spread <= low_medium
StopLossBar ==
    /\ ProcessedBar
    /\ \/ status = 1 /\ ~LessThan(Close0' - Close1', Val(up_medium))
       \/ status = 2 /\ ~GreaterThan(Close0' - Close1', Val(low_medium))

\* the value of the long leg on the bar being processed, doubled
LongLegNow ==
    IF status = 1
    THEN long_portfolio_value(Close1', qty1)
    ELSE long_portfolio_value(Close0', qty0)

\* the value of the short leg on the bar being processed, doubled
ShortLegNow ==
    IF status = 1
    THEN short_portfolio_value(
             LineValue(Val(initial_price_data0), Close0', Close1'), Close0', qty0)
    ELSE short_portfolio_value(
             LineValue(Val(initial_price_data1), Close0', Close1'), Close0', qty1)

\* (net_gain_long + net_gain_short) / initial_cash < loss_limit, or the short
\* leg is worth nothing
StopLossTrigger ==
    LET net_gain_long == LongLegNow - Val(initial_long_pv)
        net_gain_short == ShortLegNow - Val(initial_short_pv)
        gain == net_gain_long + net_gain_short
        cash0 == Val(initial_cash)
    IN  \/ cash0 > 0 /\ 1000 * gain < LossLimitMilli * cash0
        \/ cash0 < 0 /\ 1000 * gain > LossLimitMilli * cash0
        \/ ShortLegNow <= 0

StopLossOutcome ==
    IF StopLossTrigger
    THEN status' = 0 /\ CloseCalls(calls') /\ qty0' = 0 /\ qty1' = 0
    ELSE calls' = <<>> /\ UNCHANGED tradeVars

\* C4: in the stop-loss branch the strategy exits iff the return of the trade
\* is below loss_limit or the short leg's value is <= 0, and otherwise makes
\* no call and leaves status, quantities and trade state unchanged.
C4_StopLoss == [][StopLossBar => StopLossOutcome]_vars

\* C4 holds on every stop-loss bar on which initial_cash is not 0
C4_StopLossNonZeroCash ==
    [][(StopLossBar /\ Val(initial_cash) # 0) =>
          (StopLossOutcome /\ error' = "none")]_vars

\* the documented stop-loss scenario: -0.03 is below -0.015
C4_Scenario ==
    ReturnBelowLimit(2 * ((48000 - 50000) + (49000 - 50000)), 2 * 100000)

\* C5: while an order is open the pending latch is set, and at most one pair
\* of orders is open at any time.
C5_PendingLatch ==
    /\ orders # <<>> => orderid # None
    /\ Len(orders) <= 2

\* the thresholds have been computed
ThresholdsSet == upper_limit # None

\* a <= b for two thresholds over the same mean and standard deviation
ThresholdLeq(a, b) == a.m = b.m /\ a.w = b.w /\ (a.k <= b.k \/ a.w = 0)

ThresholdsOrdered ==
    LET mean == Threshold(Val(spread_mean), Val(spread_std), 0)
    IN  /\ ThresholdLeq(Val(lower_limit), Val(low_medium))
        /\ ThresholdLeq(Val(low_medium), mean)
        /\ ThresholdLeq(mean, Val(up_medium))
        /\ ThresholdLeq(Val(up_medium), Val(upper_limit))

\* C6 as claimed: with exit_threshold_size <= enter_threshold_size the
\* thresholds are ordered wherever they are set.
C6_OrderingAsClaimed ==
    (ThresholdsSet /\ exit_threshold_size <= enter_threshold_size)
        => ThresholdsOrdered

\* C6: with 0 <= exit_threshold_size <= enter_threshold_size, in every state
\* in which the thresholds are set, lower_limit <= low_medium <= spread_mean
\* <= up_medium <= upper_limit.
C6_Ordering ==
    (ThresholdsSet /\ 0 <= exit_threshold_size
                   /\ exit_threshold_size <= enter_threshold_size)
        => ThresholdsOrdered

\* thresholds frozen by an entry, with a positive deviation, on a later bar
C6_Witness ==
    /\ ThresholdsSet
    /\ 0 <= exit_threshold_size
    /\ exit_threshold_size <= enter_threshold_size
    /\ status # 0
    /\ Val(spread_std) > 0
    /\ Val(spread_mean) # WindowSum(data0, data1)
    /\ ThresholdsOrdered

\* the host has filled and notified the oldest open order
FillStep ==
    /\ orders # <<>>
    /\ orders' = Tail(orders)
    /\ pos0' # pos0 \/ pos1' # pos1

\* C9: a completed fill of signed size q at price p takes exactly
\* min(max(1, 0.005 * |q|), 0.01 * p * |q|) from broker cash, whatever the
\* side; for p = 100 and q = 50 that is 1.
C9_Commission ==
    [][FillStep =>
          LET o == Head(orders)
              q == IF o.data = 0 THEN pos0' - pos0 ELSE pos1' - pos1
              p == IF o.data = 0 THEN Close0 ELSE Close1
              a == IF q < 0 THEN -q ELSE q
              floored == IF 5 * a < 1000 THEN 1000 ELSE 5 * a
              capped == IF floored > 10 * p * a THEN 10 * p * a ELSE floored
          IN  /\ cash - cash' = capped
              /\ (o.op = "buy" <=> q > 0)
              /\ Commission(100, 50) = 1000
              /\ Commission(100, -50) = 1000]_vars

\* a sell has been filled and charged
C9_Witness == cash < 0 /\ pos0 < 0 /\ orders = <<>>

\* C11: the thresholds change only on a processed bar that starts Flat; every
\* bar that starts non-flat (hold, stop-loss check, exit or flip) and every
\* order notification leaves all six of them as they were.
C11_ThresholdsFrozen ==
    [][/\ (thrVars' # thrVars) => (ProcessedBar /\ status = 0)
       /\ (BarStep /\ status # 0) => (thrVars' = thrVars)]_vars

\* a bar was processed in a position and made no call, and the thresholds in
\* force are not the ones its window would give
C11_Witness ==
    /\ status # 0
    /\ calls = <<>>
    /\ nbars > MaxLookback
    /\ Val(spread) = Close0 - Close1
    /\ \/ Val(spread_mean) # WindowSum(data0, data1)
       \/ Val(spread_std) # WindowDev(data0, data1)

\* the price at which the short leg was entered: initial_short_pv is half the
\* entry price times the quantity of the short instrument
ShortQty == IF status = 1 THEN qty0 ELSE qty1

\* the short leg valued as the claim has it, doubled: the quantity times
\* (1.5 * entry price - current price), both of the instrument that is short
ClaimedShortLeg ==
    3 * Val(initial_short_pv)
        - 2 * ShortQty * (IF status = 1 THEN Close0' ELSE Close1')

\* the stop-loss condition on the legs valued as the claim has them
ClaimedTrigger ==
    LET gain == (LongLegNow - Val(initial_long_pv))
                    + (ClaimedShortLeg - Val(initial_short_pv))
        cash0 == Val(initial_cash)
    IN  \/ cash0 > 0 /\ 1000 * gain < LossLimitMilli * cash0
        \/ cash0 < 0 /\ 1000 * gain > LossLimitMilli * cash0
        \/ ClaimedShortLeg <= 0

\* C12: the stop-loss check values the short leg as quantity times (1.5 *
\* entry price - current price) of the instrument that is short, and the long
\* leg as the current price of the long instrument times its quantity, so
\* the bar exits exactly when the condition on those values holds.
C12_ShortLegValuation ==
    [][(StopLossBar /\ Val(initial_cash) # 0) =>
          /\ ShortLegNow = ClaimedShortLeg
          /\ status' = 0 <=> ClaimedTrigger]_vars

\* a notification that neither fills nor removes an order: Submitted, Accepted
PendingNotice == orders' = orders /\ nbars' = nbars

\* the oldest open order ends without a fill: Expired, Canceled, Margin
RejectStep ==
    /\ orders # <<>>
    /\ orders' = Tail(orders)
    /\ pos0' = pos0
    /\ pos1' = pos1

\* C13: a Submitted or Accepted notification changes no strategy state, not
\* the pending flag either; an Expired, Canceled or Margin notification
\* leaves the pending flag cleared and changes nothing else: status,
\* quantities, thresholds, trade state and broker cash stay as they were.
C13_NotifyFrame ==
    [][/\ PendingNotice => UNCHANGED <<strategyVars, cash>>
       /\ RejectStep =>
             /\ orderid' = None
             /\ UNCHANGED <<paramVars, spread, thrVars, tradeVars, cash>>]_vars

\* both orders of an entry into ShortSpread have ended without a fill
C13_Witness ==
    /\ status = 1
    /\ ShortCalls(calls)
    /\ qty0 > 0
    /\ qty1 > 0
    /\ orders = <<>>
    /\ pos0 = 0
    /\ pos1 = 0
    /\ cash = 0

\* the last bar entered a position and both of its orders have ended without
\* a fill: the broker holds nothing and nothing is open
EntryRejected ==
    /\ ShortCalls(calls) \/ LongCalls(calls)
    /\ calls[1].size > 0
    /\ calls[2].size > 0
    /\ orders = <<>>
    /\ pos0 = 0
    /\ pos1 = 0

\* C14: after the orders of an entry are rejected, the next processed bar
\* decides as from Flat: it recomputes the thresholds from its window and
\* submits the entry again iff the spread is outside [lower_limit,
\* upper_limit].
C14_ReentryAfterRejection ==
    [][(ProcessedBar /\ EntryRejected) =>
          LET sp == Close0' - Close1'
              S == WindowSum(data0', data1')
              W == WindowDev(data0', data1')
              up == Threshold(S, W, enter_threshold_size)
              lo == Threshold(S, W, -enter_threshold_size)
          IN  /\ upper_limit' = Some(up)
              /\ lower_limit' = Some(lo)
              /\ ShortCalls(calls') <=> GreaterThan(sp, up)
              /\ LongCalls(calls') <=> LessThan(sp, lo)]_vars

\* the broker holds what the strategy's bookkeeping says
HoldingsMatch ==
    /\ status = 0 => (pos0 = 0 /\ pos1 = 0)
    /\ status = 1 => (pos0 = -qty0 /\ pos1 = qty1)
    /\ status = 2 => (pos0 = qty0 /\ pos1 = -qty1)

\* the k-th logged bar entered a position, from Flat or by a direct flip
EntryLogged(k) ==
    /\ m_status[k] # 0
    /\ k > 1 => m_status[k - 1] # m_status[k]

\* the portfolio value was non-negative on every bar that entered a position
EntryValuesNonNegative ==
    \A k \in 1..Len(m_status) : EntryLogged(k) => pv[k] >= 0

\* C15 as claimed: when every order completes before the next bar, then once
\* the orders of a bar are filled the broker's holding is -qty0 / +qty1 in
\* ShortSpread, +qty0 / -qty1 in LongSpread and zero in Flat, for every
\* portfolio value.
C15_HoldingsAsClaimed == orders = <<>> => HoldingsMatch

\* C15: when every order completes before the next bar and the portfolio
\* value is non-negative on every bar that enters a position, then once the
\* orders of a bar are filled the broker's holding is -qty0 / +qty1 in
\* ShortSpread, +qty0 / -qty1 in LongSpread and zero in Flat, after entries,
\* exits, stop-loss exits and direct flips alike.
C15_Holdings == (orders = <<>> /\ EntryValuesNonNegative) => HoldingsMatch

\* a direct flip from ShortSpread to LongSpread has been filled: the order of
\* instrument 0 carried the new quantity and the one held short before
C15_Witness ==
    /\ EntryValuesNonNegative
    /\ Len(m_status) >= 2
    /\ m_status[Len(m_status) - 1] = 1
    /\ m_status[Len(m_status)] = 2
    /\ status = 2
    /\ LongCalls(calls)
    /\ qty0 > 0
    /\ calls[1].size > qty0
    /\ calls[2].size > qty1
    /\ orders = <<>>
    /\ pos0 = qty0
    /\ pos1 = -qty1

\* the number of non-zero statuses among the first k of s
NonZeroSeen(s, k) == Cardinality({j \in 1..k : s[j] # 0})

\* the length of the run that is open after the scanned prefix
OpenRunLen == IF _curstate # 0 THEN _counter ELSE 0

\* what the scan has accounted for equals what it has seen: _n * _mean is the
\* sum of the lengths of the closed runs
PrefixAccounted ==
    m_pc = "scan" =>
        /\ _mean[2] > 0
        /\ _n * _mean[1] + OpenRunLen * _mean[2]
               = NonZeroSeen(m_status, m_i - 1) * _mean[2]

\* the scan is at a direct flip between 1 and 2
AtFlip ==
    /\ m_pc = "scan"
    /\ m_i <= Len(m_status)
    /\ _curstate # 0
    /\ m_status[m_i] # 0
    /\ m_status[m_i] # _curstate

\* C16: after any scanned prefix the lengths of the closed runs plus the
\* length of the open run add up to the number of non-zero statuses seen; a
\* direct flip closes the current run with its full length and opens a run of
\* length 1 at the flip bar, and a run closed by a 0 leaves nothing behind.
C16_PrefixAccounting ==
    /\ []PrefixAccounted
    /\ [][(AtFlip /\ m_i' = m_i + 1) =>
             /\ _n' = _n + 1
             /\ _counter' = 1
             /\ _curstate' = m_status[m_i]
             /\ (_n + 1) * _mean'[1] * _mean[2]
                    = (_n * _mean[1] + _counter * _mean[2]) * _mean'[2]]_vars

\* the scan stands after a run closed by a 0 and a run closed by a flip
C16_Witness ==
    /\ m_pc = "scan"
    /\ m_i = 6
    /\ SubSeq(m_status, 1, 5) = <<1, 1, 0, 2, 1>>
    /\ _n = 2
    /\ _mean = <<3, 2>>
    /\ _curstate = 1
    /\ _counter = 1

\* q is floor(a / b), for b > 0
IsFloor(q, a, b) == q * b <= a /\ a < (q + 1) * b

\* the bar enters a position (from Flat or by a direct flip) and the analyzer
\* records the portfolio value that the entry read
EntryBar ==
    /\ ProcessedBar
    /\ status' # 0
    /\ calls' # <<>>
    /\ Len(pv') = Len(pv) + 1

\* the entry sizes both legs by floor and orders new quantity + quantity held
EntrySizedByFloor ==
    LET v == pv'[Len(pv')]
    IN  /\ IsFloor(qty0', 2 * v, 3 * Close0')
        /\ IsFloor(qty1', 2 * v, 3 * Close1')
        /\ calls'[1].size = qty0' + qty0
        /\ calls'[2].size = qty1' + qty1
        /\ status = 0 => (calls'[1].size = qty0' /\ calls'[2].size = qty1')
        /\ status' = 1 => ShortCalls(calls')
        /\ status' = 2 => LongCalls(calls')

\* C17 as claimed: for every portfolio value an entry sets qty0 and qty1 to
\* floor((2/3 * value) / price) and orders new quantity + previous quantity
\* of each instrument, selling 0 / buying 1 for ShortSpread and the reverse
\* for LongSpread.
C17_SizingAsClaimed == [][EntryBar => EntrySizedByFloor]_vars

\* C17: for every non-negative portfolio value an entry sets qty0 and qty1 to
\* floor((2/3 * value) / price) and orders new quantity + previous quantity
\* of each instrument (the new quantity alone from Flat), selling 0 / buying
\* 1 for ShortSpread and the reverse for LongSpread.
C17_Sizing ==
    [][(EntryBar /\ pv'[Len(pv')] >= 0) => EntrySizedByFloor]_vars

\* a direct flip into LongSpread at a non-negative portfolio value: the order
\* of instrument 0 is larger than the new quantity by the quantity held
C17_Witness ==
    /\ status = 2
    /\ LongCalls(calls)
    /\ pv # <<>>
    /\ pv[Len(pv)] > 0
    /\ qty0 > 0
    /\ IsFloor(qty0, 2 * pv[Len(pv)], 3 * Close0)
    /\ 3 * Close0 * qty0 < 2 * pv[Len(pv)]
    /\ calls[1].size > qty0

\* one of the feeds is short of max_lookback bars on the bar being delivered
ShortOfHistory ==
    nbars' + lead0 < MaxLookback \/ nbars' + lead1 < MaxLookback

\* C18: on a bar on which either instrument has fewer than max_lookback bars,
\* next makes no call, submits nothing and leaves status, spread, thresholds,
\* quantities and trade state as they were.
C18_InsufficientHistory ==
    [][(BarStep /\ ShortOfHistory) =>
          /\ calls' = <<>>
          /\ orders' = orders
          /\ UNCHANGED <<spread, thrVars, tradeVars, orderid>>]_vars

\* a bar was skipped on which instrument 0 had enough history and instrument
\* 1 had not
C18_Witness ==
    /\ nbars >= 1
    /\ nbars + lead0 >= MaxLookback
    /\ nbars + lead1 < MaxLookback
    /\ spread = None
    /\ upper_limit = None
    /\ status = 0
    /\ calls = <<>>

\* both feeds have at least the analyzer's lookback bars on the bar being
\* delivered
Qualifies ==
    nbars' + lead0 >= m_lookback /\ nbars' + lead1 >= m_lookback

\* C19: on every bar on which both instruments have at least lookback bars
\* Metrics.next appends one entry to the status log (the strategy's status
\* after the bar) and one to the portfolio-value log, and nothing on any
\* other bar; recorded entries are never changed or removed, and the two
\* logs have the same length.
C19_Logs ==
    /\ [](Len(pv) = Len(m_status))
    /\ [][(BarStep /\ error' = "none") =>
             IF Qualifies
             THEN /\ m_status' = Append(m_status, status')
                  /\ Len(pv') = Len(pv) + 1
                  /\ SubSeq(pv', 1, Len(pv)) = pv
                  /\ pv'[Len(pv')] \in Values
             ELSE UNCHANGED <<pv, m_status>>]_vars
    /\ [][~BarStep => UNCHANGED <<pv, m_status>>]_vars

\* instrument 1 started a bar ahead and the analyzer's lookback is below the
\* strategy's; every bar since instrument 0 had lookback bars is in the logs:
\* first a bar the strategy did not process, then the bar of an entry
C19_Witness ==
    /\ lead1 = 1
    /\ m_lookback < MaxLookback
    /\ nbars > m_lookback
    /\ Len(m_status) = nbars - m_lookback + 1
    /\ Len(pv) = Len(m_status)
    /\ m_status[Len(m_status)] = status
    /\ m_status[1] = 0
    /\ m_status[2] # 0

\* C20: in every reachable non-flat state initial_cash is strictly positive,
\* so the return of the stop-loss check is defined and no bar fails with a
\* division by zero, also for a portfolio value so small that both
\* quantities are 0.
C20_InitialCashPositive ==
    /\ status # 0 => Val(initial_cash) > 0
    /\ error # "ZeroDivisionError"

====
